---------------------------- MODULE Spec2Model ----------------------------
(***************************************************************************)
(* A model of badx12's Parser (src/badx12/parser.py) and of the CLI parse  *)
(* command (src/badx12/commands/parse/__init__.py).                        *)
(*                                                                         *)
(* Text is a sequence of one-character strings, so that startswith, split, *)
(* slicing, strip and zfill are computed character by character, the way   *)
(* the Python code computes them.  Group and TransactionSet objects live   *)
(* in a heap (groupObjs, tsObjs) and are referred to by their index, so    *)
(* that two references to one object are distinguishable from two equal    *)
(* objects.                                                                *)
(***************************************************************************)
EXTENDS Integers, Sequences, FiniteSets, TLC

(***************************************************************************)
(* Bounds of the model.                                                    *)
(***************************************************************************)
\* longest segment sequence of the documents enumerated in any order
MaxSegs == 4
\* most groups of an enumerated well-nested document
MaxGroups == 2
\* most transaction sets per group of an enumerated well-nested document
MaxSets == 2
\* most body segments per transaction set of an enumerated well-nested document
MaxBody == 2
\* most files of one CLI batch
MaxFiles == 2

(***************************************************************************)
(* Python string primitives.                                               *)
(***************************************************************************)
Min(a, b) == IF a < b THEN a ELSE b

\* s[a:b] for 0 <= a <= b
Slice(s, a, b) == SubSeq(s, a + 1, Min(b, Len(s)))

\* s.startswith(p)
StartsWith(s, p) == Len(s) >= Len(p) /\ SubSeq(s, 1, Len(p)) = p

\* s.replace(c, "") for a one-character c
Remove(s, c) == SelectSeq(s, LAMBDA x : x # c)

Whitespace == {" ", "\n", "\t", "\r"}

RECURSIVE LStrip(_)
LStrip(s) ==
    IF s # <<>> /\ Head(s) \in Whitespace THEN LStrip(Tail(s)) ELSE s

RECURSIVE RStrip(_)
RStrip(s) ==
    IF s # <<>> /\ s[Len(s)] \in Whitespace
    THEN RStrip(SubSeq(s, 1, Len(s) - 1)) ELSE s

\* s.strip()
Strip(s) == RStrip(LStrip(s))

\* s.split(sep) for a one-character separator sep (a string of length 1):
\* the stretches of s before, between and after the positions that hold sep
Split(s, sep) ==
    LET cuts == SelectSeq([i \in 1..Len(s) |-> i], LAMBDA i : <<s[i]>> = sep)
    IN  [k \in 1..(Len(cuts) + 1) |->
            SubSeq(s, (IF k = 1 THEN 0 ELSE cuts[k - 1]) + 1,
                      (IF k > Len(cuts) THEN Len(s) + 1 ELSE cuts[k]) - 1)]

\* sep.join(parts)
RECURSIVE Join(_, _)
Join(parts, sep) ==
    IF Len(parts) = 0 THEN <<>>
    ELSE IF Len(parts) = 1 THEN parts[1]
    ELSE LET m == Len(parts) \div 2
         IN  Join(SubSeq(parts, 1, m), sep) \o sep
             \o Join(SubSeq(parts, m + 1, Len(parts)), sep)

Digits == <<"0", "1", "2", "3", "4", "5", "6", "7", "8", "9">>

\* str(n) for n >= 0
RECURSIVE IntToStr(_)
IntToStr(n) ==
    IF n < 10 THEN <<Digits[n + 1]>>
    ELSE IntToStr(n \div 10) \o <<Digits[(n % 10) + 1]>>

\* s.zfill(width) for a string of digits
RECURSIVE ZFill(_, _)
ZFill(s, width) == IF Len(s) >= width THEN s ELSE ZFill(<<"0">> \o s, width)


(***************************************************************************)
(* The document model: Element, Segment, the structural segments and the   *)
(* configuration (badx12.document, imported at parser.py:5-12).            *)
(***************************************************************************)
Element(name, content, description, required, min_length, max_length) ==
    [name |-> name, content |-> content, description |-> description,
     required |-> required, min_length |-> min_length,
     max_length |-> max_length]

\* the tags of the structural segments (X().id.name)
ISA == <<"I", "S", "A">>
GS  == <<"G", "S">>
GE  == <<"G", "E">>
ST  == <<"S", "T">>
SE  == <<"S", "E">>
IEA == <<"I", "E", "A">>

StructuralTags == {ISA, GS, GE, ST, SE, IEA}

\* number of Elements in the fixed field list of a structural segment
SchemaFieldCount(tag) ==
    CASE tag = ISA -> 17
      [] tag = GS  -> 9
      [] tag = GE  -> 3
      [] tag = ST  -> 3
      [] tag = SE  -> 3
      [] tag = IEA -> 3

\* longest content a non-tag Element of a structural segment may hold
SchemaMaxLen == 3

\* a schema Element: the tag Element is required and has the tag's length,
\* the others are optional and hold at most SchemaMaxLen characters
SchemaElement(tag, index) ==
    IF index = 0
    THEN Element(tag, tag, "schema", TRUE, Len(tag), Len(tag))
    ELSE Element(tag \o ZFill(IntToStr(index), 2), <<>>, "schema", FALSE,
                 0, SchemaMaxLen)

\* X() for a structural segment X: the fixed field list, id is fields[0]
NewSegment(tag) ==
    [id |-> SchemaElement(tag, 0),
     fields |-> [i \in 1..SchemaFieldCount(tag) |-> SchemaElement(tag, i - 1)],
     field_count |-> SchemaFieldCount(tag)]

\* Segment(): no fields yet
EmptySegment == [id |-> Element(<<>>, <<>>, "", FALSE, 0, 0), fields |-> <<>>,
                 field_count |-> 0]

\* EDIDocument().config
DefaultConfig ==
    [element_separator |-> <<"*">>, sub_element_separator |-> <<">">>,
     segment_terminator |-> <<"~">>, version |-> <<>>]

\* Group() and TransactionSet()
NewGroup == [header |-> NewSegment(GS), trailer |-> NewSegment(GE),
             transaction_sets |-> <<>>]
NewTransactionSet == [header |-> NewSegment(ST), trailer |-> NewSegment(SE),
                      transaction_body |-> <<>>]

(***************************************************************************)
(* The documents given to the parser.  A document is the join of its raw   *)
(* segments by the terminator; a raw segment is the join of its fields by  *)
(* the element separator.  Every segment carries the digit of its position *)
(* so that order is observable.                                            *)
(***************************************************************************)
Delims1 == [e |-> <<"*">>, s |-> <<":">>, t |-> <<"~">>]
Delims2 == [e |-> <<"|">>, s |-> <<">">>, t |-> <<"!">>]
DelimSets == {Delims1, Delims2}

ZZZ == <<"Z", "Z", "Z">>
STC == <<"S", "T", "C">>
SEF == <<"S", "E", "F">>
GEN == <<"G", "E", "N">>

\* field lists of the segments of the enumerated documents
IsaFields(last) ==
    <<ISA, <<>>, <<>>, <<>>, <<>>, <<>>, <<>>, <<>>, <<>>, <<>>, <<>>, <<>>,
      <<"5">>, <<"1">>, <<>>, <<>>, last>>
GsFields(ctl)        == <<GS, <<>>, <<>>, <<>>, <<>>, <<>>, ctl>>
GeFields(count, ctl) == <<GE, count, ctl>>
StFields(ctl)        == <<ST, <<"T">>, ctl>>
SeFields(count, ctl) == <<SE, count, ctl>>
IeaFields(count, ctl) == <<IEA, count, ctl>>
GenericFields(tag, x) == <<tag, x>>
LongFields(x) ==
    <<ZZZ, <<>>, <<>>, <<>>, <<>>, <<>>, <<>>, <<>>, <<>>, <<>>, x>>

\* one raw segment of the given kind at position i
KindFields(kind, i) ==
    CASE kind = "GS"   -> GsFields(IntToStr(i))
      [] kind = "GE"   -> GeFields(IntToStr(i), IntToStr(i))
      [] kind = "ST"   -> StFields(IntToStr(i))
      [] kind = "SE"   -> SeFields(IntToStr(i), IntToStr(i))
      [] kind = "IEA"  -> IeaFields(IntToStr(i), IntToStr(i))
      [] kind = "ZZZ"  -> GenericFields(ZZZ, IntToStr(i))
      [] kind = "STC"  -> GenericFields(STC, IntToStr(i))
      [] kind = "SEF"  -> GenericFields(SEF, IntToStr(i))
      [] kind = "GEN"  -> GenericFields(GEN, IntToStr(i))
      [] kind = "LONG" -> LongFields(IntToStr(i))
      [] kind = "EMPTY" -> <<<<>>>>
      [] kind = "GS+"  -> GsFields(IntToStr(i)) \o <<<<>>, <<>>, <<"x">>>>
      [] kind = "GE+"  -> GeFields(IntToStr(i), IntToStr(i)) \o <<<<"x">>>>
      [] kind = "ST+"  -> StFields(IntToStr(i)) \o <<<<"x">>>>
      [] kind = "SE+"  -> SeFields(IntToStr(i), IntToStr(i)) \o <<<<"x">>>>
      [] kind = "IEA+" -> IeaFields(IntToStr(i), IntToStr(i)) \o <<<<"x">>>>

\* the text of a document: the header segment, then the given field lists
RenderText(d, fieldLists) ==
    Join([i \in 1..(Len(fieldLists) + 1) |->
            IF i = 1 THEN Join(IsaFields(d.s), d.e)
            ELSE Join(fieldLists[i - 1], d.e)], d.t) \o d.t

RenderKinds(d, kinds) ==
    RenderText(d, [i \in 1..Len(kinds) |-> KindFields(kinds[i], i)])

\* all sequences over S of length at most n
SeqsUpTo(S, n) == UNION {[1..k -> S] : k \in 0..n}

\* documents whose segments come in any order
CoreKinds == {"GS", "GE", "ST", "SE", "ZZZ"}
ArbitraryDocs == {RenderKinds(Delims1, ks) : ks \in SeqsUpTo(CoreKinds, MaxSegs)}

\* well-nested documents: g groups of t transaction sets with the body b
BodyKinds == {"ZZZ", "STC", "LONG", "EMPTY"}

NonEmptyCount(b) == Cardinality({i \in 1..Len(b) : b[i] # "EMPTY"})

SetFieldLists(ti, b) ==
    <<StFields(IntToStr(ti))>>
    \o [i \in 1..Len(b) |-> KindFields(b[i], i)]
    \o <<SeFields(IntToStr(NonEmptyCount(b) + 2), IntToStr(ti))>>

RECURSIVE SetsFieldLists(_, _)
SetsFieldLists(t, b) ==
    IF t = 0 THEN <<>> ELSE SetsFieldLists(t - 1, b) \o SetFieldLists(t, b)

GroupFieldLists(gi, t, b) ==
    <<GsFields(IntToStr(gi))>> \o SetsFieldLists(t, b)
    \o <<GeFields(IntToStr(t), IntToStr(gi))>>

RECURSIVE GroupsFieldLists(_, _, _)
GroupsFieldLists(g, t, b) ==
    IF g = 0 THEN <<>>
    ELSE GroupsFieldLists(g - 1, t, b) \o GroupFieldLists(g, t, b)

WellNestedText(d, g, t, b) ==
    RenderText(d, GroupsFieldLists(g, t, b)
                  \o <<IeaFields(IntToStr(g), <<"1">>)>>)

WellNestedDocs ==
    {WellNestedText(d, g, t, b) :
        d \in DelimSets, g \in 0..MaxGroups, t \in 0..MaxSets,
        b \in SeqsUpTo(BodyKinds, MaxBody)}

\* documents about the header, the whitespace and the over-long segments
HeaderOnly(d, last) == Join(IsaFields(last), d.e)

HeaderDocs ==
    UNION {
      { HeaderOnly(d, d.s),
        HeaderOnly(d, d.s) \o d.e \o d.t \o Join(GsFields(<<"1">>), d.e),
        HeaderOnly(d, <<>>),
        HeaderOnly(d, d.s \o <<"\n">>) \o Join(GsFields(<<"1">>), d.e),
        ISA \o d.e \o <<"0", "0">> \o d.e \o d.t
            \o Join(GsFields(<<"1">>), d.e) \o d.t
            \o Join(GeFields(<<"0">>, <<"1">>), d.e) \o d.t,
        <<" ", "\n">> \o RenderKinds(d, <<"GS", "GE">>) \o <<"\n", " ">>,
        <<"I", "\n", "S", "A">> \o Tail(Tail(Tail(RenderKinds(d, <<"GS">>)))),
        <<" ", " ">> \o Join(GsFields(<<"1">>), d.e) \o d.t,
        Join(GsFields(<<"1">>), d.e) \o d.t,
        <<"X", "Y", "Z">> \o d.e \o <<"1">> \o d.t,
        RenderKinds(d, <<"GS+">>),
        RenderKinds(d, <<"GS", "GE+">>),
        RenderKinds(d, <<"GS", "ST+">>),
        RenderKinds(d, <<"GS", "ST", "SE+">>),
        RenderKinds(d, <<"IEA">>),
        RenderKinds(d, <<"IEA+">>),
        RenderKinds(d, <<"GE+">>),
        RenderKinds(d, <<"SE+">>),
        RenderKinds(d, <<"GS", "ST", "ZZZ", "SE", "ZZZ", "GE", "IEA">>),
        RenderKinds(d, <<"ZZZ", "GS", "LONG", "ST", "EMPTY", "STC", "SE">>)
      } : d \in DelimSets }
    \cup {<<>>, <<"I", "S">>, ISA, <<"I", "S", "A", "\n">>, <<" ">>}

\* documents about the routing: generic tags that begin with a structural
\* tag, headers that follow a header, trailers that follow a trailer
RoutingDocs ==
    UNION {
      { RenderKinds(d, <<"GS", "ST", "SEF", "GEN", "STC", "SE", "GE", "IEA">>),
        RenderKinds(d, <<"GS", "ST", "GEN", "ZZZ", "SEF">>),
        RenderKinds(d, <<"GS", "GS", "ST", "ZZZ", "ST", "ZZZ", "SE", "GE">>),
        RenderKinds(d, <<"GS", "ST", "SE", "GE", "GS", "SE", "SE", "GE", "GE">>),
        RenderKinds(d, <<"GS", "ST", "EMPTY", "EMPTY", "ZZZ", "SE", "EMPTY",
                         "GE", "EMPTY">>)
      } : d \in DelimSets }

Documents == ArbitraryDocs \cup WellNestedDocs \cup HeaderDocs \cup RoutingDocs

(***************************************************************************)
(* State.                                                                  *)
(***************************************************************************)
VARIABLES
    \* the CLI parse command
    files,               \* the batch: the text of each file, in order
    fileIdx,             \* number of files the loop has finished with
    cliPc,               \* "none", "loop", "parsing", "done" or "crashed"
    exported,            \* the files export_file was called for, in order
    logged,              \* the logger.error calls, in order
    \* one Parser
    input_text,          \* the argument of parse_document
    is_file,             \* whether the argument names a file
    pc,                  \* position of parse_document
    exc,                 \* the exception parse_document raised
    document_text,       \* self.document_text
    config,              \* self.document.config
    header,              \* self.document.interchange.header
    trailer,             \* self.document.interchange.trailer
    groups,              \* self.document.interchange.groups (references)
    groupObjs,           \* the Group objects created so far
    tsObjs,              \* the TransactionSet objects created so far
    current_group,       \* self.current_group, Unset while not assigned
    current_transaction, \* self.current_transaction, Unset while not assigned
    segment_list,        \* self.segment_list
    idx,                 \* number of segments routed
    generic_segment,     \* the Segment _parse_unknown_body built last
    \* calling parse_document again on one Parser
    texts,               \* the texts of the first and of the second call
    calls,               \* number of parse_document calls made on the Parser
    fresh                \* what a new Parser made of the second text alone

cliVars == <<files, fileIdx, cliPc, exported, logged>>
parserVars == <<input_text, is_file, pc, exc, document_text, config, header,
                trailer, groups, groupObjs, tsObjs, current_group,
                current_transaction, segment_list, idx, generic_segment>>
reuseVars == <<texts, calls, fresh>>
vars == <<cliVars, parserVars, reuseVars>>

\* an attribute the instance does not have
Unset == 0

NoExc == [type |-> "none", segment |-> <<>>]
Raise(type) == [type |-> type, segment |-> <<>>]

(***************************************************************************)
(* The parser's functions.                                                 *)
(***************************************************************************)
\* _validate_document: the text of the file or the string, without newlines
validate_document(document, isfile) ==
    Strip(Remove(IF isfile THEN Strip(document) ELSE document, "\n"))

\* segment.fields[index].content = value; segment.id is fields[0]
SetContent(segment, index, value) ==
    [segment EXCEPT !.fields[index + 1].content = value,
                    !.id = IF index = 0 THEN [@ EXCEPT !.content = value]
                           ELSE @]

\* the for loop of _parse_segment, stopped by the IndexError of a field the
\* segment does not have
RECURSIVE AssignFields(_, _, _)
AssignFields(segment, field_list, index) ==
    IF index >= Len(field_list) \/ index >= Len(segment.fields) THEN segment
    ELSE AssignFields(SetContent(segment, index, field_list[index + 1]),
                      field_list, index + 1)

parse_segment(segment, field_list) ==
    [segment |-> AssignFields(segment, field_list, 0),
     ok |-> Len(field_list) <= Len(segment.fields)]

\* a faulty variant of _parse_interchange_header: the terminator is looked for
\* at last_header_field[0:1]
parse_interchange_header_FirstChar(text, cfg, hdr) ==
    LET sep  == Slice(text, 3, 4)
        cfg1 == [cfg EXCEPT !.element_separator = sep]
    IN  IF sep = <<>>
        THEN [config |-> cfg1, header |-> hdr, exc |-> "ValueError"]
        ELSE
        LET fl   == Split(text, sep)
            cfg2 == IF Len(fl) > 12 THEN [cfg1 EXCEPT !.version = fl[13]]
                    ELSE cfg1
            hdr1 == AssignFields(hdr, SubSeq(fl, 1, Min(Len(fl), 16)), 0)
        IN  IF Len(fl) <= 16
            THEN [config |-> cfg2, header |-> hdr1, exc |-> "none"]
            ELSE
            LET last == fl[17]
                hdr2 == SetContent(hdr1, 16, Slice(last, 0, 1))
            IN  IF Slice(last, 0, 1) # <<>>
                THEN [config |-> [cfg2 EXCEPT !.segment_terminator =
                                                  Slice(last, 0, 1)],
                      header |-> hdr2, exc |-> "none"]
                ELSE [config |-> cfg2, header |-> hdr2,
                      exc |-> "SegmentTerminatorNotFoundError"]

\* a faulty variant of _parse_interchange_header: the text is split by the
\* element separator the config held before this run
parse_interchange_header_StaleSeparator(text, cfg, hdr) ==
    LET sep  == Slice(text, 3, 4)
        cfg1 == [cfg EXCEPT !.element_separator = sep]
    IN  IF sep = <<>>
        THEN [config |-> cfg1, header |-> hdr, exc |-> "ValueError"]
        ELSE
        LET fl   == Split(text, cfg.element_separator)
            cfg2 == IF Len(fl) > 12 THEN [cfg1 EXCEPT !.version = fl[13]]
                    ELSE cfg1
            hdr1 == AssignFields(hdr, SubSeq(fl, 1, Min(Len(fl), 16)), 0)
        IN  IF Len(fl) <= 16
            THEN [config |-> cfg2, header |-> hdr1, exc |-> "none"]
            ELSE
            LET last == fl[17]
                hdr2 == SetContent(hdr1, 16, Slice(last, 0, 1))
            IN  IF Slice(last, 1, 2) # <<>>
                THEN [config |-> [cfg2 EXCEPT !.segment_terminator =
                                                  Slice(last, 1, 2)],
                      header |-> hdr2, exc |-> "none"]
                ELSE [config |-> cfg2, header |-> hdr2,
                      exc |-> "SegmentTerminatorNotFoundError"]

\* _parse_interchange_header: the config and header it leaves, and what it
\* raised
parse_interchange_header(text, cfg, hdr) ==
    LET sep  == Slice(text, 3, 4)
        cfg1 == [cfg EXCEPT !.element_separator = sep]
    IN  IF sep = <<>>
        THEN [config |-> cfg1, header |-> hdr, exc |-> "ValueError"]
        ELSE
        LET fl   == Split(text, sep)
            cfg2 == IF Len(fl) > 12 THEN [cfg1 EXCEPT !.version = fl[13]]
                    ELSE cfg1
            hdr1 == AssignFields(hdr, SubSeq(fl, 1, Min(Len(fl), 16)), 0)
        IN  IF Len(fl) <= 16
            THEN [config |-> cfg2, header |-> hdr1, exc |-> "none"]
            ELSE
            LET last == fl[17]
                hdr2 == SetContent(hdr1, 16, Slice(last, 0, 1))
            IN  IF Slice(last, 1, 2) # <<>>
                THEN [config |-> [cfg2 EXCEPT !.segment_terminator =
                                                  Slice(last, 1, 2)],
                      header |-> hdr2, exc |-> "none"]
                ELSE [config |-> cfg2, header |-> hdr2,
                      exc |-> "SegmentTerminatorNotFoundError"]

\* _route_segment_to_parser: the parser a raw segment goes to
RouteOf(segment) ==
    IF StartsWith(segment, ISA) THEN "ISA"
    ELSE IF StartsWith(segment, GS) THEN "GS"
    ELSE IF StartsWith(segment, GE) THEN "GE"
    ELSE IF StartsWith(segment, ST) THEN "ST"
    ELSE IF StartsWith(segment, SE) THEN "SE"
    ELSE IF StartsWith(segment, IEA) THEN "IEA"
    ELSE "unknown"

\* a faulty variant of _create_generic_element: the bounds are the length of
\* the name
create_generic_element_NameLength(index, value, name) ==
    Element(IF index > 0 THEN name \o ZFill(IntToStr(index), 2) ELSE name,
            value, "A generic element created by the parser", FALSE,
            Len(name), Len(name))

\* _create_generic_element
create_generic_element(index, value, name) ==
    Element(IF index > 0 THEN name \o ZFill(IntToStr(index), 2) ELSE name,
            value, "A generic element created by the parser", FALSE,
            Len(value), Len(value))

\* a faulty variant of _parse__unknown_segment: the fields are numbered from 1
parse__unknown_segment_OneBased(segment_field_list) ==
    LET fields == [i \in 1..Len(segment_field_list) |->
                     create_generic_element(i, segment_field_list[i],
                                            segment_field_list[1])]
    IN  [id |-> fields[1], fields |-> fields, field_count |-> Len(fields)]

\* _parse__unknown_segment on a new Segment()
parse__unknown_segment(segment_field_list) ==
    LET fields == [i \in 1..Len(segment_field_list) |->
                     create_generic_element(i - 1, segment_field_list[i],
                                            segment_field_list[1])]
    IN  [id |-> fields[1], fields |-> fields, field_count |-> Len(fields)]

(***************************************************************************)
(* Parser(): a new instance, about to run parse_document(document).        *)
(***************************************************************************)
NewParser(document, isfile) ==
    /\ input_text' = document
    /\ is_file' = isfile
    /\ pc' = "start"
    /\ exc' = NoExc
    /\ document_text' = <<>>
    /\ config' = DefaultConfig
    /\ header' = NewSegment(ISA)
    /\ trailer' = NewSegment(IEA)
    /\ groups' = <<>>
    /\ groupObjs' = <<>>
    /\ tsObjs' = <<>>
    /\ current_group' = Unset
    /\ current_transaction' = Unset
    /\ segment_list' = <<>>
    /\ idx' = 0
    /\ generic_segment' = EmptySegment

\* position is "start" when parse_document has been called, "idle" while no
\* Parser is at work
InitParser(document, isfile, position) ==
    /\ input_text = document
    /\ is_file = isfile
    /\ pc = position
    /\ exc = NoExc
    /\ document_text = <<>>
    /\ config = DefaultConfig
    /\ header = NewSegment(ISA)
    /\ trailer = NewSegment(IEA)
    /\ groups = <<>>
    /\ groupObjs = <<>>
    /\ tsObjs = <<>>
    /\ current_group = Unset
    /\ current_transaction = Unset
    /\ segment_list = <<>>
    /\ idx = 0
    /\ generic_segment = EmptySegment

(***************************************************************************)
(* parse_document, one step per call it makes and per segment it routes.   *)
(***************************************************************************)
\* a faulty variant of parse_document: the segment reported is cut from the
\* argument, not from the cleaned text
ParseDocument_RawSegment ==
    /\ pc = "start"
    /\ LET text == validate_document(input_text, is_file)
       IN  /\ document_text' = text
           /\ IF StartsWith(text, ISA)
              THEN pc' = "header" /\ exc' = exc
              ELSE /\ pc' = "raised"
                   /\ exc' = [type |-> "InvalidFileTypeError",
                              segment |-> Slice(input_text, 0, 3)]
    /\ UNCHANGED <<cliVars, reuseVars,
                   input_text, is_file, config, header, trailer,
                   groups, groupObjs, tsObjs, current_group,
                   current_transaction, segment_list, idx, generic_segment>>

\* parse_document up to the test of the interchange-header tag
ParseDocument ==
    /\ pc = "start"
    /\ LET text == validate_document(input_text, is_file)
       IN  /\ document_text' = text
           /\ IF StartsWith(text, ISA)
              THEN pc' = "header" /\ exc' = exc
              ELSE /\ pc' = "raised"
                   /\ exc' = [type |-> "InvalidFileTypeError",
                              segment |-> Slice(text, 0, 3)]
    /\ UNCHANGED <<cliVars, reuseVars,
                   input_text, is_file, config, header, trailer,
                   groups, groupObjs, tsObjs, current_group,
                   current_transaction, segment_list, idx, generic_segment>>

ParseInterchangeHeader ==
    /\ pc = "header"
    /\ LET r == parse_interchange_header(document_text, config, header)
       IN  /\ config' = r.config
           /\ header' = r.header
           /\ IF r.exc = "none"
              THEN pc' = "split" /\ exc' = exc
              ELSE pc' = "raised" /\ exc' = Raise(r.exc)
    /\ UNCHANGED <<cliVars, reuseVars,
                   input_text, is_file, document_text, trailer,
                   groups, groupObjs, tsObjs, current_group,
                   current_transaction, segment_list, idx, generic_segment>>

\* _separate_and_route_segments: the split
SeparateSegments ==
    /\ pc = "split"
    /\ segment_list' = Split(document_text, config.segment_terminator)
    /\ idx' = 0
    /\ pc' = "route"
    /\ UNCHANGED <<cliVars, reuseVars,
                   input_text, is_file, exc, document_text, config,
                   header, trailer, groups, groupObjs, tsObjs, current_group,
                   current_transaction, generic_segment>>

\* the raw segment the loop of _separate_and_route_segments is at
Seg == segment_list[idx + 1]
SegFields == Split(Seg, config.element_separator)
Routing(kind) ==
    pc = "route" /\ idx < Len(segment_list) /\ RouteOf(Seg) = kind

Routed == idx' = idx + 1 /\ UNCHANGED <<pc, exc>>
Raised(type) == pc' = "raised" /\ exc' = Raise(type) /\ UNCHANGED idx

\* a faulty variant of the loop of _separate_and_route_segments: the segment
\* skipped is looked at again
SkipInterchangeHeader_NoAdvance ==
    /\ Routing("ISA")
    /\ UNCHANGED vars

SkipInterchangeHeader ==
    /\ Routing("ISA")
    /\ Routed
    /\ UNCHANGED <<cliVars, reuseVars,
                   input_text, is_file, document_text, config,
                   header, trailer, groups, groupObjs, tsObjs, current_group,
                   current_transaction, segment_list, generic_segment>>

\* a faulty variant of _parse_group_header: the group that is still open is
\* put into interchange.groups before it is replaced
ParseGroupHeader_KeepsOpenGroup ==
    /\ Routing("GS")
    /\ groups' = IF current_group # Unset
                    /\ \A k \in 1..Len(groups) : groups[k] # current_group
                 THEN Append(groups, current_group) ELSE groups
    /\ LET r == parse_segment(NewSegment(GS), SegFields)
       IN  /\ current_group' = Len(groupObjs) + 1
           /\ IF r.ok
              THEN /\ groupObjs' = Append(groupObjs,
                                     [NewGroup EXCEPT !.header = r.segment])
                   /\ Routed
              ELSE /\ groupObjs' = Append(groupObjs, NewGroup)
                   /\ Raised("IndexError")
    /\ UNCHANGED <<cliVars, reuseVars,
                   input_text, is_file, document_text, config,
                   header, trailer, tsObjs, current_transaction,
                   segment_list, generic_segment>>

ParseGroupHeader ==
    /\ Routing("GS")
    /\ LET r == parse_segment(NewSegment(GS), SegFields)
       IN  /\ current_group' = Len(groupObjs) + 1
           /\ IF r.ok
              THEN /\ groupObjs' = Append(groupObjs,
                                     [NewGroup EXCEPT !.header = r.segment])
                   /\ Routed
              ELSE /\ groupObjs' = Append(groupObjs, NewGroup)
                   /\ Raised("IndexError")
    /\ UNCHANGED <<cliVars, reuseVars,
                   input_text, is_file, document_text, config,
                   header, trailer, groups, tsObjs, current_transaction,
                   segment_list, generic_segment>>

ParseGroupTrailer ==
    /\ Routing("GE")
    /\ LET r == parse_segment(NewSegment(GE), SegFields)
       IN  IF ~r.ok
           THEN Raised("IndexError") /\ UNCHANGED <<groups, groupObjs>>
           ELSE IF current_group = Unset
           THEN Raised("AttributeError") /\ UNCHANGED <<groups, groupObjs>>
           ELSE /\ groupObjs' = [groupObjs EXCEPT
                                   ![current_group].trailer = r.segment]
                /\ groups' = Append(groups, current_group)
                /\ Routed
    /\ UNCHANGED <<cliVars, reuseVars,
                   input_text, is_file, document_text, config,
                   header, trailer, tsObjs, current_group,
                   current_transaction, segment_list, generic_segment>>

ParseInterchangeTrailer ==
    /\ Routing("IEA")
    /\ LET r == parse_segment(trailer, SegFields)
       IN  /\ trailer' = r.segment
           /\ IF r.ok THEN Routed ELSE Raised("IndexError")
    /\ UNCHANGED <<cliVars, reuseVars,
                   input_text, is_file, document_text, config,
                   header, groups, groupObjs, tsObjs, current_group,
                   current_transaction, segment_list, generic_segment>>

ParseTransactionSetHeader ==
    /\ Routing("ST")
    /\ LET r == parse_segment(NewSegment(ST), SegFields)
       IN  /\ current_transaction' = Len(tsObjs) + 1
           /\ IF r.ok
              THEN /\ tsObjs' = Append(tsObjs,
                              [NewTransactionSet EXCEPT !.header = r.segment])
                   /\ Routed
              ELSE /\ tsObjs' = Append(tsObjs, NewTransactionSet)
                   /\ Raised("IndexError")
    /\ UNCHANGED <<cliVars, reuseVars,
                   input_text, is_file, document_text, config,
                   header, trailer, groups, groupObjs, current_group,
                   segment_list, generic_segment>>

ParseTransactionSetTrailer ==
    /\ Routing("SE")
    /\ LET r == parse_segment(NewSegment(SE), SegFields)
       IN  IF ~r.ok
           THEN Raised("IndexError") /\ UNCHANGED <<groupObjs, tsObjs>>
           ELSE IF current_transaction = Unset
           THEN Raised("AttributeError") /\ UNCHANGED <<groupObjs, tsObjs>>
           ELSE /\ tsObjs' = [tsObjs EXCEPT
                                ![current_transaction].trailer = r.segment]
                /\ IF current_group = Unset
                   THEN Raised("AttributeError") /\ UNCHANGED groupObjs
                   ELSE /\ groupObjs' =
                             [groupObjs EXCEPT
                                ![current_group].transaction_sets =
                                    Append(@, current_transaction)]
                        /\ Routed
    /\ UNCHANGED <<cliVars, reuseVars,
                   input_text, is_file, document_text, config,
                   header, trailer, groups, current_group,
                   current_transaction, segment_list, generic_segment>>

\* a faulty variant of _parse_unknown_body: the test of the empty segment is
\* missing
ParseUnknownBody_NoEmptyTest ==
    /\ Routing("unknown")
    /\ LET segment == parse__unknown_segment(SegFields)
       IN  /\ generic_segment' = segment
           /\ IF current_transaction # Unset
              THEN tsObjs' = [tsObjs EXCEPT
                                ![current_transaction].transaction_body =
                                    Append(@, segment)]
              ELSE UNCHANGED tsObjs
    /\ Routed
    /\ UNCHANGED <<cliVars, reuseVars,
                   input_text, is_file, document_text, config,
                   header, trailer, groups, groupObjs, current_group,
                   current_transaction, segment_list>>

ParseUnknownBody ==
    /\ Routing("unknown")
    /\ IF Seg # <<>>
       THEN LET segment == parse__unknown_segment(SegFields)
            IN  /\ generic_segment' = segment
                /\ IF current_transaction # Unset
                   THEN tsObjs' = [tsObjs EXCEPT
                                     ![current_transaction].transaction_body =
                                         Append(@, segment)]
                   ELSE UNCHANGED tsObjs
       ELSE UNCHANGED <<tsObjs, generic_segment>>
    /\ Routed
    /\ UNCHANGED <<cliVars, reuseVars,
                   input_text, is_file, document_text, config,
                   header, trailer, groups, groupObjs, current_group,
                   current_transaction, segment_list>>

\* parse_document returns self.document
ReturnDocument ==
    /\ pc = "route"
    /\ idx = Len(segment_list)
    /\ pc' = "returned"
    /\ UNCHANGED <<cliVars, reuseVars,
                   input_text, is_file, exc, document_text, config,
                   header, trailer, groups, groupObjs, tsObjs, current_group,
                   current_transaction, segment_list, idx, generic_segment>>

ParserNext ==
    \/ ParseDocument
    \/ ParseInterchangeHeader
    \/ SeparateSegments
    \/ SkipInterchangeHeader
    \/ ParseGroupHeader
    \/ ParseGroupTrailer
    \/ ParseInterchangeTrailer
    \/ ParseTransactionSetHeader
    \/ ParseTransactionSetTrailer
    \/ ParseUnknownBody
    \/ ReturnDocument

(***************************************************************************)
(* Spec: one Parser parsing one string.                                    *)
(***************************************************************************)
\* what parse_document left: how it ended and the document it filled
NoOutcome == [pc |-> "none", exc |-> "none", text |-> <<>>,
              config |-> DefaultConfig, header |-> <<>>, trailer |-> <<>>,
              groups |-> <<>>]

\* a Parser whose constructor calls parse_document once, and no more
OneCall == texts = <<>> /\ calls = 1 /\ fresh = NoOutcome

Init ==
    /\ files = <<>>
    /\ fileIdx = 0
    /\ cliPc = "none"
    /\ exported = <<>>
    /\ logged = <<>>
    /\ \E document \in Documents : InitParser(document, FALSE, "start")
    /\ OneCall

Next == ParserNext

Spec == Init /\ [][Next]_vars

(***************************************************************************)
(* document.validate() (badx12.document): the ValidationReport of the      *)
(* document the parser holds.  Diagnostics are collected, never raised.    *)
(***************************************************************************)
ElementFlagged(e) ==
    \/ Len(e.content) < e.min_length
    \/ Len(e.content) > e.max_length
    \/ (e.required /\ e.content = <<>>)

SegmentFlagged(segment) ==
    \E i \in 1..Len(segment.fields) : ElementFlagged(segment.fields[i])

\* the transaction sets the document holds
DocumentSets ==
    UNION {{groupObjs[groups[k]].transaction_sets[j] :
              j \in 1..Len(groupObjs[groups[k]].transaction_sets)} :
           k \in 1..Len(groups)}

\* the segments the document holds
DocumentSegments ==
    {header, trailer}
    \cup {groupObjs[groups[k]].header : k \in 1..Len(groups)}
    \cup {groupObjs[groups[k]].trailer : k \in 1..Len(groups)}
    \cup {tsObjs[t].header : t \in DocumentSets}
    \cup {tsObjs[t].trailer : t \in DocumentSets}
    \cup UNION {{tsObjs[t].transaction_body[j] :
                   j \in 1..Len(tsObjs[t].transaction_body)} :
                t \in DocumentSets}

FieldErrors == \E segment \in DocumentSegments : SegmentFlagged(segment)

\* a trailer's first field declares the number of children
CountErrors ==
    \/ trailer.fields[2].content # IntToStr(Len(groups))
    \/ \E k \in 1..Len(groups) :
          groupObjs[groups[k]].trailer.fields[2].content
              # IntToStr(Len(groupObjs[groups[k]].transaction_sets))
    \/ \E t \in DocumentSets :
          tsObjs[t].trailer.fields[2].content
              # IntToStr(Len(tsObjs[t].transaction_body) + 2)

\* a trailer's second field repeats the control number of its header
IdErrors ==
    \/ trailer.fields[3].content # header.fields[14].content
    \/ \E k \in 1..Len(groups) :
          groupObjs[groups[k]].trailer.fields[3].content
              # groupObjs[groups[k]].header.fields[7].content
    \/ \E t \in DocumentSets :
          tsObjs[t].trailer.fields[3].content
              # tsObjs[t].header.fields[3].content

\* report.error_list
validate ==
    (IF FieldErrors THEN <<"FieldValidationError">> ELSE <<>>)
    \o (IF CountErrors THEN <<"SegmentCountError">> ELSE <<>>)
    \o (IF IdErrors THEN <<"IDMismatchError">> ELSE <<>>)

is_document_valid(report) == report = <<>>

(***************************************************************************)
(* The CLI parse command: the loop over the files of a batch.              *)
(***************************************************************************)
\* the exceptions the except clause of the loop names
CaughtErrors ==
    {"InvalidFileTypeError", "FieldValidationError", "SegmentCountError",
     "IDMismatchError", "SegmentTerminatorNotFoundError"}

\* for f in files: parser = Parser(f)
CliOpenFile ==
    /\ cliPc = "loop"
    /\ fileIdx < Len(files)
    /\ cliPc' = "parsing"
    /\ NewParser(files[fileIdx + 1], TRUE)
    /\ UNCHANGED <<files, fileIdx, exported, logged, reuseVars>>

\* the report is valid: export_file is called
CliExport ==
    /\ cliPc = "parsing"
    /\ pc = "returned"
    /\ is_document_valid(validate)
    /\ exported' = Append(exported, fileIdx + 1)
    /\ fileIdx' = fileIdx + 1
    /\ cliPc' = "loop"
    /\ UNCHANGED <<files, logged, parserVars, reuseVars>>

\* a faulty variant of the loop body: the continue after logging is missing
CliSkipInvalid_NoContinue ==
    /\ cliPc = "parsing"
    /\ pc = "returned"
    /\ ~is_document_valid(validate)
    /\ logged' = Append(logged, [file |-> fileIdx + 1, kind |-> "invalid",
                                 detail |-> validate])
    /\ exported' = Append(exported, fileIdx + 1)
    /\ fileIdx' = fileIdx + 1
    /\ cliPc' = "loop"
    /\ UNCHANGED <<files, parserVars, reuseVars>>

\* the report is not valid: logged, continue
CliSkipInvalid ==
    /\ cliPc = "parsing"
    /\ pc = "returned"
    /\ ~is_document_valid(validate)
    /\ logged' = Append(logged, [file |-> fileIdx + 1, kind |-> "invalid",
                                 detail |-> validate])
    /\ fileIdx' = fileIdx + 1
    /\ cliPc' = "loop"
    /\ UNCHANGED <<files, exported, parserVars, reuseVars>>

\* the except clause: logged, next file
CliCatch ==
    /\ cliPc = "parsing"
    /\ pc = "raised"
    /\ exc.type \in CaughtErrors
    /\ logged' = Append(logged, [file |-> fileIdx + 1, kind |-> "exception",
                                 detail |-> <<exc.type>>])
    /\ fileIdx' = fileIdx + 1
    /\ cliPc' = "loop"
    /\ UNCHANGED <<files, exported, parserVars, reuseVars>>

\* any other exception leaves the loop and the command
CliCrash ==
    /\ cliPc = "parsing"
    /\ pc = "raised"
    /\ exc.type \notin CaughtErrors
    /\ cliPc' = "crashed"
    /\ UNCHANGED <<files, fileIdx, exported, logged, parserVars, reuseVars>>

\* the loop is over
CliDone ==
    /\ cliPc = "loop"
    /\ fileIdx = Len(files)
    /\ cliPc' = "done"
    /\ UNCHANGED <<files, fileIdx, exported, logged, parserVars, reuseVars>>

\* the files of the enumerated batches
CliDocs ==
    { WellNestedText(Delims1, 1, 1, <<"ZZZ">>),
      <<"\n">> \o WellNestedText(Delims2, 2, 1, <<"STC", "EMPTY">>) \o <<"\n">>,
      RenderKinds(Delims1, <<"GS", "ST", "ZZZ", "SE", "GE", "IEA">>),
      Join(GsFields(<<"1">>), Delims1.e) \o Delims1.t,
      HeaderOnly(Delims1, Delims1.s),
      RenderKinds(Delims1, <<"GE">>),
      RenderKinds(Delims2, <<"GS", "ST", "SE+">>),
      ISA }

InitCli ==
    /\ files \in SeqsUpTo(CliDocs, MaxFiles) \ {<<>>}
    /\ fileIdx = 0
    /\ cliPc = "loop"
    /\ exported = <<>>
    /\ logged = <<>>
    /\ InitParser(<<>>, TRUE, "idle")
    /\ OneCall

NextCli ==
    \/ CliOpenFile
    \/ ParseDocument
    \/ ParseInterchangeHeader
    \/ SeparateSegments
    \/ SkipInterchangeHeader
    \/ ParseGroupHeader
    \/ ParseGroupTrailer
    \/ ParseInterchangeTrailer
    \/ ParseTransactionSetHeader
    \/ ParseTransactionSetTrailer
    \/ ParseUnknownBody
    \/ ReturnDocument
    \/ CliExport
    \/ CliSkipInvalid
    \/ CliCatch
    \/ CliCrash
    \/ CliDone

SpecCli == InitCli /\ [][NextCli]_vars

(***************************************************************************)
(* Reading a document independently of the router: the raw segments by     *)
(* their exact tag (the first field), and the nesting they spell out.      *)
(***************************************************************************)
Max(S) == CHOOSE x \in S : \A y \in S : y <= x

RawFields(i) == Split(segment_list[i], config.element_separator)

\* the exact tag decides the kind; any other non-empty segment is generic
ExactKind(i) ==
    IF segment_list[i] = <<>> THEN "empty"
    ELSE LET tag == RawFields(i)[1]
         IN  CASE tag = ISA -> "ISA"
               [] tag = GS  -> "GS"
               [] tag = GE  -> "GE"
               [] tag = ST  -> "ST"
               [] tag = SE  -> "SE"
               [] tag = IEA -> "IEA"
               [] OTHER     -> "generic"

\* the kind of the last structural segment before position i
PrevStruct(i) ==
    LET J == {j \in 1..(i - 1) : ExactKind(j) \notin {"generic", "empty"}}
    IN  IF J = {} THEN "none" ELSE ExactKind(Max(J))

\* a structural segment has no more fields than its schema
FitsSchema(i) ==
    CASE ExactKind(i) = "GS"  -> Len(RawFields(i)) <= SchemaFieldCount(GS)
      [] ExactKind(i) = "GE"  -> Len(RawFields(i)) <= SchemaFieldCount(GE)
      [] ExactKind(i) = "ST"  -> Len(RawFields(i)) <= SchemaFieldCount(ST)
      [] ExactKind(i) = "SE"  -> Len(RawFields(i)) <= SchemaFieldCount(SE)
      [] ExactKind(i) = "IEA" -> Len(RawFields(i)) <= SchemaFieldCount(IEA)
      [] OTHER                -> TRUE

\* ISA (GS (ST generic* SE)* GE)* IEA, empty raw segments anywhere
WellNested ==
    /\ Len(segment_list) >= 1
    /\ ExactKind(1) = "ISA"
    /\ \A i \in 2..Len(segment_list) : FitsSchema(i)
    /\ \A i \in 2..Len(segment_list) :
          CASE ExactKind(i) = "ISA"     -> FALSE
            [] ExactKind(i) = "GS"      -> PrevStruct(i) \in {"ISA", "GE"}
            [] ExactKind(i) = "GE"      -> PrevStruct(i) \in {"GS", "SE"}
            [] ExactKind(i) = "ST"      -> PrevStruct(i) \in {"GS", "SE"}
            [] ExactKind(i) = "SE"      -> PrevStruct(i) = "ST"
            [] ExactKind(i) = "IEA"     -> PrevStruct(i) \in {"ISA", "GE"}
            [] ExactKind(i) = "generic" -> PrevStruct(i) = "ST"
            [] OTHER                    -> TRUE
    /\ PrevStruct(Len(segment_list) + 1) = "IEA"

\* the elements of a set of positions, in increasing order
SortedSeq(P) ==
    [k \in 1..Cardinality(P) |->
        CHOOSE p \in P : Cardinality({q \in P : q < p}) = k - 1]

PositionsOf(kind, lo, hi) ==
    {i \in (lo + 1)..(hi - 1) : ExactKind(i) = kind}

\* the first position after p of the given kind
NextOf(kind, p) ==
    CHOOSE i \in (p + 1)..Len(segment_list) :
        /\ ExactKind(i) = kind
        /\ \A j \in (p + 1)..(i - 1) : ExactKind(j) # kind

\* fields, filled up with the empty content of the fields no value was given
Padded(fields, n) == fields \o [i \in 1..(n - Len(fields)) |-> <<>>]

ExpectedSet(q) ==
    [header |-> Padded(RawFields(q), SchemaFieldCount(ST)),
     trailer |-> Padded(RawFields(NextOf("SE", q)), SchemaFieldCount(SE)),
     body |-> LET B == SortedSeq(PositionsOf("generic", q, NextOf("SE", q)))
              IN  [b \in 1..Len(B) |-> RawFields(B[b])]]

ExpectedGroup(p) ==
    [header |-> Padded(RawFields(p), SchemaFieldCount(GS)),
     trailer |-> Padded(RawFields(NextOf("GE", p)), SchemaFieldCount(GE)),
     sets |-> LET Q == SortedSeq(PositionsOf("ST", p, NextOf("GE", p)))
              IN  [j \in 1..Len(Q) |-> ExpectedSet(Q[j])]]

\* what a well-nested document spells out
ExpectedTree ==
    LET P == SortedSeq(PositionsOf("GS", 0, Len(segment_list) + 1))
    IN  [k \in 1..Len(P) |-> ExpectedGroup(P[k])]

Contents(segment) ==
    [i \in 1..Len(segment.fields) |-> segment.fields[i].content]

ActualSet(t) ==
    [header |-> Contents(tsObjs[t].header),
     trailer |-> Contents(tsObjs[t].trailer),
     body |-> [b \in 1..Len(tsObjs[t].transaction_body) |->
                 Contents(tsObjs[t].transaction_body[b])]]

ActualGroup(g) ==
    [header |-> Contents(groupObjs[g].header),
     trailer |-> Contents(groupObjs[g].trailer),
     sets |-> [j \in 1..Len(groupObjs[g].transaction_sets) |->
                 ActualSet(groupObjs[g].transaction_sets[j])]]

\* what interchange.groups holds
ActualTree == [k \in 1..Len(groups) |-> ActualGroup(groups[k])]

Finished == pc \in {"returned", "raised"}

(***************************************************************************)
(* C1.  For every well-nested document parse_document returns a model      *)
(* whose groups, transaction sets and transaction bodies are exactly those *)
(* of the document, in document order.                                     *)
(***************************************************************************)
C1_WellNestedAssembled ==
    (Finished /\ WellNested) => (pc = "returned" /\ ActualTree = ExpectedTree)

(***************************************************************************)
(* C2.  When parse_document finishes, len(interchange.groups) is the       *)
(* number of group trailers routed, and each group's len(transaction_sets) *)
(* is the number of transaction-set trailers routed between that group's   *)
(* GS and its GE.                                                          *)
(***************************************************************************)
RoutedAs(kind, lo, hi) ==
    {i \in (lo + 1)..(hi - 1) : RouteOf(segment_list[i]) = kind}

C2_CountsMatchTrailers ==
    pc = "returned" =>
        LET ends == SortedSeq(RoutedAs("GE", 0, Len(segment_list) + 1))
        IN  /\ Len(groups) = Len(ends)
            /\ \A k \in 1..Len(groups) :
                  Len(groupObjs[groups[k]].transaction_sets)
                      = Cardinality(RoutedAs("SE",
                                             Max(RoutedAs("GS", 0, ends[k])),
                                             ends[k]))

(***************************************************************************)
(* C3.  A text that does not start with ISA makes parse_document raise     *)
(* InvalidFileTypeError whose segment is the first 3 characters of the     *)
(* text, with the config untouched and nothing routed.                     *)
(***************************************************************************)
FirstThree(text) == [i \in 1..Min(3, Len(text)) |-> text[i]]

StartsWithISA(text) ==
    Len(text) >= 3 /\ text[1] = "I" /\ text[2] = "S" /\ text[3] = "A"

C3_InvalidFileType ==
    (pc \notin {"idle", "start"} /\ ~StartsWithISA(document_text)) =>
        /\ pc = "raised"
        /\ exc.type = "InvalidFileTypeError"
        /\ exc.segment = FirstThree(document_text)
        /\ config = DefaultConfig
        /\ groups = <<>>
        /\ segment_list = <<>>
        /\ idx = 0

C3_Witness ==
    /\ pc = "raised"
    /\ exc.type = "InvalidFileTypeError"
    /\ Len(exc.segment) = 3
    /\ Len(document_text) > 3
    /\ Len(input_text) > Len(document_text)

(***************************************************************************)
(* C4.  A text starting with ISA whose field 16 is a single character      *)
(* makes parse_document raise SegmentTerminatorNotFoundError with no       *)
(* segment split or routed.                                                *)
(***************************************************************************)
\* document_text[3:4] is one character, so that the text has fields
HasSeparator == Len(document_text) >= 4

SingleCharField16 ==
    /\ StartsWithISA(document_text)
    /\ HasSeparator
    /\ Len(Split(document_text, <<document_text[4]>>)) >= 17
    /\ Len(Split(document_text, <<document_text[4]>>)[17]) = 1

C4_TerminatorNotFound ==
    (pc \notin {"idle", "start", "header"} /\ SingleCharField16) =>
        /\ pc = "raised"
        /\ exc.type = "SegmentTerminatorNotFoundError"
        /\ groups = <<>>
        /\ groupObjs = <<>>
        /\ tsObjs = <<>>
        /\ current_group = Unset
        /\ current_transaction = Unset
        /\ segment_list = <<>>
        /\ idx = 0

C4_Witness ==
    /\ SingleCharField16
    /\ pc = "raised"
    /\ exc.type = "SegmentTerminatorNotFoundError"
    /\ Len(Split(document_text, <<document_text[4]>>)) > 17

(***************************************************************************)
(* C5.  After _parse_interchange_header succeeds on a header that has a    *)
(* field 16, the config holds all three delimiters: the character at       *)
(* offset 3, the first character of field 16 and its second character.     *)
(***************************************************************************)
C5_ThreeDelimitersInConfig ==
    (pc = "split" /\ Len(Split(document_text, <<document_text[4]>>)) >= 17) =>
        LET field16 == Split(document_text, <<document_text[4]>>)[17]
        IN  /\ config.element_separator = <<document_text[4]>>
            /\ config.sub_element_separator = <<field16[1]>>
            /\ config.segment_terminator = <<field16[2]>>

(***************************************************************************)
(* C6.  parse_document returns or fails with InvalidFileTypeError or       *)
(* SegmentTerminatorNotFoundError, and with no other exception.            *)
(***************************************************************************)
C6_OnlyHardParseErrors ==
    pc = "raised" =>
        exc.type \in {"InvalidFileTypeError", "SegmentTerminatorNotFoundError"}

(***************************************************************************)
(* C7.  Every element of every generic segment has required false and      *)
(* min_length = max_length = len(content), so that no length bound flags   *)
(* it.                                                                     *)
(***************************************************************************)
GenericSegments ==
    {generic_segment}
    \cup UNION {{tsObjs[t].transaction_body[b] :
                   b \in 1..Len(tsObjs[t].transaction_body)} :
                t \in 1..Len(tsObjs)}

C7_GenericElementsPass ==
    \A segment \in GenericSegments : \A i \in 1..Len(segment.fields) :
        LET e == segment.fields[i]
        IN  /\ e.required = FALSE
            /\ e.min_length = Len(e.content)
            /\ e.max_length = Len(e.content)
            /\ ~(Len(e.content) < e.min_length \/ Len(e.content) > e.max_length)

C7_Witness ==
    \E t \in 1..Len(tsObjs) : \E b \in 1..Len(tsObjs[t].transaction_body) :
        LET segment == tsObjs[t].transaction_body[b]
        IN  \E i, j \in 1..Len(segment.fields) :
                /\ Len(segment.fields[i].content) = 0
                /\ Len(segment.fields[j].content) = 3

(***************************************************************************)
(* C8.  A non-empty raw segment routed to generic synthesis with fields    *)
(* f0..fn gives a Segment of n+1 elements with content fi in order,        *)
(* element 0 named f0 and being the id, element i>0 named f0 followed by   *)
(* i in two digits, and field_count n+1.                                   *)
(***************************************************************************)
TwoDigits(i) == <<Digits[(i \div 10) + 1], Digits[(i % 10) + 1]>>

\* the segment routed last went to generic synthesis
LastWasGeneric ==
    /\ idx >= 1
    /\ segment_list[idx] # <<>>
    /\ RouteOf(segment_list[idx]) = "unknown"

C8_GenericSegmentShape ==
    LastWasGeneric =>
        LET f == RawFields(idx)
        IN  /\ Len(generic_segment.fields) = Len(f)
            /\ generic_segment.field_count = Len(f)
            /\ generic_segment.id = generic_segment.fields[1]
            /\ \A i \in 1..Len(f) :
                  /\ generic_segment.fields[i].content = f[i]
                  /\ generic_segment.fields[i].name =
                        IF i = 1 THEN f[1] ELSE f[1] \o TwoDigits(i - 1)

C8_Witness ==
    /\ LastWasGeneric
    /\ Len(generic_segment.fields) = 11
    /\ generic_segment.fields[11].name = ZZZ \o <<"1", "0">>
    /\ current_transaction # Unset
    /\ generic_segment \in
          {tsObjs[current_transaction].transaction_body[b] :
              b \in 1..Len(tsObjs[current_transaction].transaction_body)}

(***************************************************************************)
(* C9.  In the CLI parse command every file of the batch is attempted,     *)
(* whatever is wrong with the files before it.                             *)
(***************************************************************************)
C9_BatchContinues ==
    cliPc \in {"done", "crashed"} =>
        fileIdx + (IF cliPc = "crashed" THEN 1 ELSE 0) = Len(files)

(***************************************************************************)
(* C10.  In the CLI parse command export_file is called for a file if and  *)
(* only if it parsed without an error and its report is valid; a file      *)
(* whose report is not valid is logged and not exported.                   *)
(***************************************************************************)
ParsedAndValid == pc = "returned" /\ validate = <<>>

C10_ExportIffValid ==
    [][/\ (cliPc = "parsing" /\ cliPc' # "parsing") =>
            /\ ParsedAndValid <=> (exported' = Append(exported, fileIdx + 1))
            /\ ~ParsedAndValid => (exported' = exported)
            /\ (pc = "returned" /\ validate # <<>>) =>
                  /\ Len(logged') = Len(logged) + 1
                  /\ logged'[Len(logged')].file = fileIdx + 1
                  /\ logged'[Len(logged')].kind = "invalid"
       /\ ~(cliPc = "parsing" /\ cliPc' # "parsing") =>
            (exported' = exported)]_vars

C10_Witness ==
    /\ cliPc = "done"
    /\ Len(files) = 2
    /\ Len(exported) = 1
    /\ \E i \in 1..Len(logged) : logged[i].kind = "invalid"

(***************************************************************************)
(* C11.  A text starting with ISA that holds no segment terminator, be it  *)
(* that field 16 has a single character, is empty or does not exist        *)
(* because the header has fewer than 17 fields, makes parse_document raise *)
(* SegmentTerminatorNotFoundError, and no segment is split.                *)
(***************************************************************************)
TerminatorAbsent ==
    /\ StartsWithISA(document_text)
    /\ HasSeparator
    /\ LET fl == Split(document_text, <<document_text[4]>>)
       IN  Len(fl) < 17 \/ Len(fl[17]) < 2

C11_NoSplitWithoutTerminator ==
    (pc \notin {"idle", "start", "header"} /\ TerminatorAbsent) =>
        /\ pc = "raised"
        /\ exc.type = "SegmentTerminatorNotFoundError"
        /\ segment_list = <<>>
        /\ idx = 0

(***************************************************************************)
(* C12.  A group that is in interchange.groups is closed: no segment       *)
(* routed afterwards (an SE, a second GE) changes its transaction_sets or  *)
(* its trailer, or appends it to interchange.groups again.                 *)
(***************************************************************************)
ClosedGroups == {groups[k] : k \in 1..Len(groups)}

C12_ClosedGroupUntouched ==
    [][\A g \in ClosedGroups :
          /\ groupObjs'[g].transaction_sets = groupObjs[g].transaction_sets
          /\ groupObjs'[g].trailer = groupObjs[g].trailer
          /\ {k \in 1..Len(groups') : groups'[k] = g}
                = {k \in 1..Len(groups) : groups[k] = g}]_vars

(***************************************************************************)
(* C13.  A generic segment is appended to the body of a transaction set    *)
(* only while that transaction set is open: its ST has been routed and its *)
(* SE has not.  Routed while no transaction set is open, before the first  *)
(* ST or after an SE, it is dropped: no body changes, nothing is raised.   *)
(***************************************************************************)
\* of the segments routed so far, the last one routed as ST or SE was an ST
TransactionOpen ==
    LET J == {j \in 1..idx : RouteOf(segment_list[j]) \in {"ST", "SE"}}
    IN  J # {} /\ RouteOf(segment_list[Max(J)]) = "ST"

C13_GenericOnlyIntoOpenSet ==
    [][(Routing("unknown") /\ Seg # <<>>) =>
          /\ pc' = "route"
          /\ IF TransactionOpen
             THEN tsObjs' = [tsObjs EXCEPT ![Len(tsObjs)].transaction_body =
                                               Append(@, generic_segment')]
             ELSE tsObjs' = tsObjs]_vars

(***************************************************************************)
(* C14.  A segment whose tag, its first field, is not exactly one of ISA,  *)
(* GS, GE, ST, SE, IEA goes to generic synthesis, also when the tag begins *)
(* with a structural tag (STC, SEF, GEN): routing it opens and closes no   *)
(* group and no transaction set.                                           *)
(***************************************************************************)
C14_ExactTagRouting ==
    [][(pc = "route" /\ idx < Len(segment_list)
           /\ ExactKind(idx + 1) = "generic") =>
          /\ RouteOf(Seg) = "unknown"
          /\ UNCHANGED <<groups, groupObjs, current_group,
                         current_transaction>>
          /\ Len(tsObjs') = Len(tsObjs)]_vars

(***************************************************************************)
(* C15.  In every state of a parse no Group object occurs twice in         *)
(* interchange.groups, and no TransactionSet object occurs twice in the    *)
(* transaction_sets of one group or in those of two groups.                *)
(***************************************************************************)
NoDuplicates(seq) == \A i, j \in 1..Len(seq) : seq[i] = seq[j] => i = j

SetsOf(g) ==
    {groupObjs[g].transaction_sets[j] :
        j \in 1..Len(groupObjs[g].transaction_sets)}

C15_ExclusiveOwnership ==
    /\ NoDuplicates(groups)
    /\ \A g \in 1..Len(groupObjs) :
          NoDuplicates(groupObjs[g].transaction_sets)
    /\ \A g, h \in 1..Len(groupObjs) :
          g # h => SetsOf(g) \cap SetsOf(h) = {}

(***************************************************************************)
(* SpecReuse: parse_document called twice on one Parser.  A new Parser     *)
(* parses the second text alone and what it made of it is kept; then       *)
(* another Parser parses the first text and is called again with the       *)
(* second.                                                                 *)
(***************************************************************************)
\* how parse_document ended and the document the Parser holds, by value
Outcome ==
    [pc |-> pc, exc |-> exc.type, text |-> document_text, config |-> config,
     header |-> Contents(header), trailer |-> Contents(trailer),
     groups |-> ActualTree]

ReuseDocs ==
    { WellNestedText(Delims1, 1, 1, <<"ZZZ">>),
      WellNestedText(Delims2, 1, 0, <<>>),
      RenderKinds(Delims1, <<"GE">>),
      RenderKinds(Delims1, <<"GS", "ST">>),
      ISA \o Delims1.e \o <<"0", "0">> \o Delims1.e \o Delims2.t
          \o Join(GsFields(<<"1">>), Delims1.e) \o Delims2.t,
      Join(GsFields(<<"1">>), Delims1.e) \o Delims1.t }

\* the new Parser is through with the second text: Parser(first text)
ParserForFirstText ==
    /\ texts # <<>>
    /\ fresh = NoOutcome
    /\ Finished
    /\ fresh' = Outcome
    /\ NewParser(texts[1], FALSE)
    /\ UNCHANGED <<cliVars, texts, calls>>

\* parse_document(second text) on the Parser that parsed the first text
ParseDocumentAgain ==
    /\ fresh # NoOutcome
    /\ calls = 1
    /\ Finished
    /\ calls' = 2
    /\ input_text' = texts[2]
    /\ pc' = "start"
    /\ exc' = NoExc
    /\ UNCHANGED <<cliVars, texts, fresh, is_file, document_text, config,
                   header, trailer, groups, groupObjs, tsObjs, current_group,
                   current_transaction, segment_list, idx, generic_segment>>

InitReuse ==
    /\ files = <<>>
    /\ fileIdx = 0
    /\ cliPc = "none"
    /\ exported = <<>>
    /\ logged = <<>>
    /\ texts \in ReuseDocs \X ReuseDocs
    /\ calls = 1
    /\ fresh = NoOutcome
    /\ InitParser(texts[2], FALSE, "start")

NextReuse ==
    \/ ParseDocument
    \/ ParseInterchangeHeader
    \/ SeparateSegments
    \/ SkipInterchangeHeader
    \/ ParseGroupHeader
    \/ ParseGroupTrailer
    \/ ParseInterchangeTrailer
    \/ ParseTransactionSetHeader
    \/ ParseTransactionSetTrailer
    \/ ParseUnknownBody
    \/ ReturnDocument
    \/ ParserForFirstText
    \/ ParseDocumentAgain

SpecReuse == InitReuse /\ [][NextReuse]_vars

(***************************************************************************)
(* C16.  The second call of parse_document on one Parser ends as a new     *)
(* Parser ends on the second text alone, and when it returns, the document *)
(* returned is equal to the one the new Parser returns: nothing of the     *)
(* first call is in it.                                                    *)
(***************************************************************************)
C16_SecondCallLikeFresh ==
    (calls = 2 /\ Finished) =>
        /\ pc = fresh.pc
        /\ exc.type = fresh.exc
        /\ pc = "returned" => Outcome = fresh

(***************************************************************************)
(* C17.  When _parse_interchange_header has succeeded on a text, running   *)
(* it once more on the same text succeeds and leaves the same              *)
(* (element_separator, sub_element_separator, segment_terminator).         *)
(***************************************************************************)
Delimiters(cfg) ==
    <<cfg.element_separator, cfg.sub_element_separator,
      cfg.segment_terminator>>

C17_DelimitersIdempotent ==
    pc = "split" =>
        LET again == parse_interchange_header(document_text, config, header)
        IN  /\ again.exc = "none"
            /\ Delimiters(again.config) = Delimiters(config)

C17_Witness ==
    /\ pc = "split"
    /\ Delimiters(config) = <<Delims2.e, Delims2.s, Delims2.t>>
    /\ header.fields[17].content = Delims2.s

(***************************************************************************)
(* C18.  Routing an empty raw segment (after a trailing terminator, or     *)
(* within a run of terminators) creates no Segment: the transaction        *)
(* bodies, the groups, the current group and the current transaction set   *)
(* stay as they are and nothing is raised.                                 *)
(***************************************************************************)
C18_EmptySegmentDropped ==
    [][(pc = "route" /\ idx < Len(segment_list) /\ Seg = <<>>) =>
          /\ UNCHANGED <<groups, groupObjs, tsObjs, current_group,
                         current_transaction, generic_segment, header,
                         trailer, config>>
          /\ pc' = "route"
          /\ exc' = NoExc
          /\ idx' = idx + 1]_vars

\* two empty raw segments have been routed in a row, a transaction set open
C18_Witness ==
    /\ pc = "route"
    /\ idx >= 2
    /\ idx < Len(segment_list)
    /\ segment_list[idx] = <<>>
    /\ segment_list[idx - 1] = <<>>
    /\ current_transaction # Unset
    /\ current_group # Unset

(***************************************************************************)
(* SpecLive: parse_document is synchronous code that nothing suspends, so  *)
(* a step that can be taken is taken.                                      *)
(***************************************************************************)
\* the documents about the header and about the routing: every handler and
\* every way of raising occurs among them
LiveDocs == RoutingDocs \cup HeaderDocs

InitLive ==
    /\ files = <<>>
    /\ fileIdx = 0
    /\ cliPc = "none"
    /\ exported = <<>>
    /\ logged = <<>>
    /\ \E document \in LiveDocs : InitParser(document, FALSE, "start")
    /\ OneCall

SpecLive == InitLive /\ [][Next]_vars /\ WF_vars(Next)

(***************************************************************************)
(* C19.  parse_document ends, by returning or by raising, on every text;   *)
(* while it scans, each step routes the next raw segment, and it returns   *)
(* when every raw segment has been routed.                                 *)
(***************************************************************************)
C19_Terminates ==
    /\ <>Finished
    /\ [][(pc = "route" /\ pc' = "route") => idx' = idx + 1]_vars
    /\ [](pc = "returned" => idx = Len(segment_list))

C19_Witness ==
    /\ pc = "returned"
    /\ idx = Len(segment_list)
    /\ Len(segment_list) >= 10
    /\ \E t \in 1..Len(tsObjs) : Len(tsObjs[t].transaction_body) >= 1

(***************************************************************************)
(* C20.  A group is in interchange.groups only if a GE was routed after    *)
(* its GS and before the next GS, and a transaction set is in the          *)
(* transaction_sets of a group only if an SE was routed after its ST and   *)
(* before the next ST.  A GS (an ST) routed while a group (a transaction   *)
(* set) is open replaces it as the current one, and what was replaced is   *)
(* in no list.                                                             *)
(***************************************************************************)
\* the segments handed to a handler so far: the one that raised is the last
Handled == IF pc = "raised" THEN Min(idx + 1, Len(segment_list)) ELSE idx

\* the position of the k-th segment routed as kind
OpenedAt(kind, k) ==
    SortedSeq({i \in 1..Handled : RouteOf(segment_list[i]) = kind})[k]

\* a closer was routed after the k-th opener and before the next opener
ClosedBeforeNext(opener, closer, k) ==
    \E j \in (OpenedAt(opener, k) + 1)..idx :
        /\ RouteOf(segment_list[j]) = closer
        /\ \A i \in (OpenedAt(opener, k) + 1)..(j - 1) :
              RouteOf(segment_list[i]) # opener

OwnedSets == UNION {SetsOf(g) : g \in 1..Len(groupObjs)}

C20_UnclosedNeverInModel ==
    /\ current_group = Len(groupObjs)
    /\ current_transaction = Len(tsObjs)
    /\ \A g \in ClosedGroups : ClosedBeforeNext("GS", "GE", g)
    /\ \A t \in OwnedSets : ClosedBeforeNext("ST", "SE", t)

\* a GS and an ST were routed while a group and a transaction set were open
C20_Witness ==
    /\ pc = "returned"
    /\ \E g \in 1..Len(groupObjs) : g \notin ClosedGroups
    /\ \E t \in 1..Len(tsObjs) :
          t \notin OwnedSets /\ tsObjs[t].transaction_body # <<>>
    /\ \E g \in ClosedGroups : groupObjs[g].transaction_sets # <<>>

=============================================================================
